---- MODULE Spec2Model ----
(***************************************************************************)
(* Model of the geocoding WSGI service: the provider adapters              *)
(* (GoogleGeocodeService, HEREGeocodeService), the multi-provider lookup   *)
(* engine (GeocodeLookup) of src/geocode/requests.py, and the /location    *)
(* handler of src/service/service.py.                                      *)
(*                                                                         *)
(* Text is a sequence of one-character strings.  A response body is a      *)
(* JSON syntax tree whose numeric literals keep their source text;         *)
(* json_loads turns it into Python values, json_dumps turns Python values  *)
(* back into text.                                                         *)
(***************************************************************************)
EXTENDS Integers, Sequences, FiniteSets, TLC

VARIABLES
    config,       \* the config mapping given to GeocodeLookup.__init__
    credentials,  \* the credentials mapping given to GeocodeLookup.__init__
    engine,       \* "unbuilt", "ok" or "ConfigError": outcome of __init__
    services,     \* self._services: adapters in insertion order
    pc,           \* position of the request in flight
    caller,       \* who called GeocodeLookup.request: "none", "direct", "handler"
    location,     \* the local variable `location` of GeocodeLookup.request
    idx,          \* position of the for loop over self._services
    missing,      \* the local variable `missing` of GeocodeLookup.request
    calls,        \* outbound calls issued by the request in flight
    result,       \* what GeocodeLookup.request returned or raised
    req,          \* the HTTP request being dispatched (environ)
    resp,         \* the Response object of the HTTP request
    handled,      \* the Request objects handed to a route handler
    handlerRet,   \* the Response the route handler returned
    sent,         \* what draining the Response gave the transport, in order
    iters,        \* number of iter() calls made on the Response
    added,        \* the body parts given to the Response, in order
    pdata,        \* argument of the process_response call under test
    padapter,     \* adapter of the process_response call under test
    pout,         \* what that process_response call returned or raised
    other,        \* the locals of a second request on the same engine
    classUrl,     \* the class attribute `url` of each adapter class
    engines       \* the GeocodeLookup objects constructed one after another

vars == <<config, credentials, engine, services, pc, caller, location, idx,
          missing, calls, result, req, resp, handled, handlerRet, sent, iters,
          added, pdata, padapter, pout, other, classUrl, engines>>

-----------------------------------------------------------------------------
(* Bounds *)

MaxServices == 2   \* longest "services" list drawn for a config
MaxLitLen == 3     \* longest numeric literal drawn for a response body
MaxParts == 3      \* most body parts given to a Response before it is drained
MaxIters == 2      \* most iter() calls made on one Response
MaxEnds == 2       \* most pulls made on a Response that has nothing left
MaxEngines == 2    \* most GeocodeLookup objects constructed in one run

-----------------------------------------------------------------------------
(* JSON syntax trees and Python values *)

Str(chars) == [t |-> "str", chars |-> chars]
Num(lit) == [t |-> "num", lit |-> lit]
PyInt(v) == [t |-> "int", v |-> v]
List(items) == [t |-> "list", items |-> items]
Dict(pairs) == [t |-> "dict", pairs |-> pairs]
JNull == [t |-> "null"]
JBool(b) == [t |-> "bool", b |-> b]
NotJson == [t |-> "notjson"]
BadUtf8 == [t |-> "badutf8"]
Exc(name) == [t |-> "exc", name |-> name]

IsExc(v) == v.t = "exc"

Digits == {"0", "1", "7"}
LitChars == Digits \cup {"-", ".", "e"}

IsDigits(s) == Len(s) >= 1 /\ \A i \in 1..Len(s) : s[i] \in Digits

IsIntPart(s) == IsDigits(s) /\ (s[1] = "0" => Len(s) = 1)

IsFracOrExp(s, mark) == s = <<>> \/ (s[1] = mark /\ IsDigits(Tail(s)))

\* The JSON number grammar: -? int frac? exp?
IsNumber(lit) ==
    LET body == IF lit # <<>> /\ lit[1] = "-" THEN Tail(lit) ELSE lit
    IN \E i \in 1..Len(body) : \E j \in i..Len(body) :
          /\ IsIntPart(SubSeq(body, 1, i))
          /\ IsFracOrExp(SubSeq(body, i + 1, j), ".")
          /\ IsFracOrExp(SubSeq(body, j + 1, Len(body)), "e")

RECURSIVE SeqsUpTo(_, _)
SeqsUpTo(S, n) ==
    IF n = 0 THEN {<<>>}
    ELSE LET shorter == SeqsUpTo(S, n - 1)
         IN shorter \cup {Append(s, c) : s \in shorter, c \in S}

Literals == {lit \in SeqsUpTo(LitChars, MaxLitLen) : IsNumber(lit)}

\* The scanner hands a literal with a fraction or an exponent to parse_float,
\* any other literal to int().
IsFloatLit(lit) == \E i \in 1..Len(lit) : lit[i] \in {".", "e"}

DigitVal(c) == CASE c = "0" -> 0 [] c = "1" -> 1 [] c = "7" -> 7

RECURSIVE DigitsToNat(_)
DigitsToNat(s) ==
    IF s = <<>> THEN 0
    ELSE 10 * DigitsToNat(SubSeq(s, 1, Len(s) - 1)) + DigitVal(s[Len(s)])

ParseInt(lit) ==
    IF lit[1] = "-" THEN 0 - DigitsToNat(Tail(lit)) ELSE DigitsToNat(lit)

\* json.loads(data, parse_float=str): float literals become str of their
\* source text, integer literals become int.
RECURSIVE LoadValue(_)
LoadValue(j) ==
    CASE j.t = "num" ->
           IF IsFloatLit(j.lit) THEN Str(j.lit) ELSE PyInt(ParseInt(j.lit))
      [] j.t = "list" ->
           List([i \in DOMAIN j.items |-> LoadValue(j.items[i])])
      [] j.t = "dict" ->
           Dict([i \in DOMAIN j.pairs |->
                    <<j.pairs[i][1], LoadValue(j.pairs[i][2])>>])
      [] OTHER -> j

json_loads(data) ==
    IF data.t = "notjson" THEN Exc("JSONDecodeError") ELSE LoadValue(data)

\* v[key] for a str key
GetKey(v, key) ==
    CASE v.t = "exc" -> v
      [] v.t = "dict" ->
           IF \E i \in DOMAIN v.pairs : v.pairs[i][1] = key
           THEN v.pairs[CHOOSE i \in DOMAIN v.pairs : v.pairs[i][1] = key][2]
           ELSE Exc("KeyError")
      [] OTHER -> Exc("TypeError")

\* v[0]
GetFirst(v) ==
    CASE v.t = "exc" -> v
      [] v.t = "list" ->
           IF v.items = <<>> THEN Exc("IndexError") ELSE v.items[1]
      [] v.t = "str" ->
           IF v.chars = <<>> THEN Exc("IndexError") ELSE Str(<<v.chars[1]>>)
      [] v.t = "dict" -> Exc("KeyError")
      [] OTHER -> Exc("TypeError")

\* Python truth value of `not v`
Falsy(v) ==
    CASE v.t = "null" -> TRUE
      [] v.t = "bool" -> ~v.b
      [] v.t = "int" -> v.v = 0
      [] v.t = "str" -> v.chars = <<>>
      [] v.t = "bytes" -> v.chars = <<>>
      [] v.t = "list" -> v.items = <<>>
      [] v.t = "dict" -> v.pairs = <<>>
      [] OTHER -> FALSE

-----------------------------------------------------------------------------
(* Provider adapters *)

known_services == {"google", "HERE"}

DefaultUrl(name) ==
    IF name = "google" THEN "https://maps.googleapis.com/maps/api/geocode/json"
    ELSE "https://geocoder.api.here.com/6.2/geocode.json"

required_credentials(name) ==
    IF name = "google" THEN {"APP_KEY"} ELSE {"APP_ID", "APP_CODE"}

\* except (json.decoder.JSONDecodeError, IndexError, KeyError, TypeError):
\*     raise DataProcessingError(data)
Caught == {"JSONDecodeError", "IndexError", "KeyError", "TypeError"}

Reraise(e) == IF e.name \in Caught THEN Exc("DataProcessingError") ELSE e

NotFound == Dict(<<>>)

Coordinate(lat, lng) == Dict(<< <<"lat", lat>>, <<"lng", lng>> >>)

\* Extract without the `if not results: return {}` test.
ExtractNoEmptyTest(top, loc, latKey, lngKey) ==
    LET lat == GetKey(loc, latKey)
        lng == GetKey(loc, lngKey)
    IN IF IsExc(top) THEN Reraise(top)
       ELSE IF IsExc(lat) THEN Reraise(lat)
       ELSE IF IsExc(lng) THEN Reraise(lng)
       ELSE Coordinate(lat, lng)

\* Body of the try block once the top-level result value is at hand.
Extract(top, loc, latKey, lngKey) ==
    LET lat == GetKey(loc, latKey)
        lng == GetKey(loc, lngKey)
    IN IF IsExc(top) THEN Reraise(top)
       ELSE IF Falsy(top) THEN NotFound
       ELSE IF IsExc(lat) THEN Reraise(lat)
       ELSE IF IsExc(lng) THEN Reraise(lng)
       ELSE Coordinate(lat, lng)

GoogleProcessResponse(data) ==
    LET js == json_loads(data)
        results == GetKey(js, "results")
        loc == GetKey(GetKey(GetFirst(results), "geometry"), "location")
    IN Extract(results, loc, "lat", "lng")

HEREProcessResponse(data) ==
    LET js == json_loads(data)
        view == GetKey(GetKey(js, "Response"), "View")
        loc == GetFirst(GetKey(GetKey(GetFirst(GetKey(GetFirst(view),
                   "Result")), "Location"), "NavigationPosition"))
    IN Extract(view, loc, "Latitude", "Longitude")

process_response(name, data) ==
    IF name = "google" THEN GoogleProcessResponse(data)
    ELSE HEREProcessResponse(data)

-----------------------------------------------------------------------------
(* Response bodies drawn for the adapters *)

Absent == [t |-> "absent"]

\* Values put in place of a step of the path, or of a coordinate.
OddValues == {JNull, JBool(TRUE), JBool(FALSE), List(<<>>), List(<<JNull>>),
              Dict(<<>>), Str(<<>>), Str(<<"x">>)}

Broken == OddValues \cup {Num(<<"0">>), Num(<<"1">>), Num(<<"0", ".", "0">>)}

CoordValues == {Num(lit) : lit \in Literals} \cup OddValues \cup {Absent}

OtherCoord == {Num(<<"1", ".", "7">>), Num(<<"7">>), Absent}

CoordPairs == (CoordValues \X OtherCoord) \cup (OtherCoord \X CoordValues)

Pair(k, v) == IF v = Absent THEN <<>> ELSE << <<k, v>> >>

LocationObj(latKey, lngKey, c) ==
    Dict(Pair(latKey, c[1]) \o Pair(lngKey, c[2]) \o Pair("other", c[2]))

Wrap(key, v) == Dict(<< <<key, v>> >>)

GoogleLocations == {LocationObj("lat", "lng", c) : c \in CoordPairs}

GoogleBodies ==
    LET geometry == {Wrap("location", v) : v \in Broken \cup GoogleLocations}
        first == {Wrap("geometry", v) : v \in Broken \cup geometry}
        results == {List(<<v>>) : v \in Broken \cup first}
                   \cup {List(<<v, JNull>>) : v \in first}
    IN {Wrap("results", v) : v \in Broken \cup results}
       \cup {Dict(<< <<"status", Str(<<"x">>)>>, <<"results", List(<<>>)>> >>)}

HERELocations == {LocationObj("Latitude", "Longitude", c) : c \in CoordPairs}

HEREBodies ==
    LET navpos == {List(<<v>>) : v \in Broken \cup HERELocations}
                  \cup {List(<<v, JNull>>) : v \in HERELocations}
        loc == {Wrap("NavigationPosition", v) : v \in Broken \cup navpos}
        first == {Wrap("Location", v) : v \in Broken \cup loc}
        resultList == {List(<<v>>) : v \in Broken \cup first}
        view1 == {Wrap("Result", v) : v \in Broken \cup resultList}
        view == {List(<<v>>) : v \in Broken \cup view1}
        responseObj == {Wrap("View", v) : v \in Broken \cup view}
    IN {Wrap("Response", v) : v \in Broken \cup responseObj}
       \cup {Wrap("Response", Dict(<< <<"MetaInfo", Dict(<<>>)>>,
                                       <<"View", List(<<>>)>> >>))}

\* Every str a process_response call is tried on
Bodies == {NotJson} \cup Broken \cup GoogleBodies \cup HEREBodies

-----------------------------------------------------------------------------
(* State outside the part a specification exercises *)

None == [t |-> "none"]

NoRequest == [method |-> "", path |-> <<>>, qs |-> <<>>]

\* Response.__init__: the start callback, no status, no headers, no data;
\* `raised` names the exception that left GeocodeApp.__call__, if any.
NoResponse ==
    [start |-> TRUE, status |-> 0, headers |-> "", data |-> <<>>,
     raised |-> ""]

\* The locals of a request that has not been made
NoFrame ==
    [pc |-> "idle", location |-> <<>>, idx |-> 0, missing |-> FALSE,
     calls |-> <<>>, result |-> None]

\* The `url` attributes as the class statements set them
ClassDefaults == [name \in known_services |-> DefaultUrl(name)]

EngineIdle ==
    /\ config = [hasServices |-> FALSE, services |-> <<>>, entries |-> <<>>]
    /\ credentials = <<>>
    /\ engine = "unbuilt"
    /\ services = <<>>

RequestIdle ==
    /\ pc = "idle"
    /\ caller = "none"
    /\ location = <<>>
    /\ idx = 0
    /\ missing = FALSE
    /\ calls = <<>>
    /\ result = None
    /\ req = NoRequest
    /\ resp = NoResponse
    /\ handled = <<>>
    /\ handlerRet = None
    /\ sent = <<>>
    /\ iters = 0
    /\ added = <<>>
    /\ other = NoFrame
    /\ classUrl = ClassDefaults
    /\ engines = <<>>

ParseIdle ==
    /\ pdata = None
    /\ padapter = "none"
    /\ pout = None

-----------------------------------------------------------------------------
(* process_response as a pure function: SpecParse *)

InitParse ==
    /\ EngineIdle
    /\ RequestIdle
    /\ pdata \in Bodies
    /\ padapter \in known_services
    /\ pout = None

ProcessResponse ==
    /\ pout = None
    /\ padapter \in known_services
    /\ pout' = process_response(padapter, pdata)
    /\ UNCHANGED <<config, credentials, engine, services, pc, caller,
                   location, idx, missing, calls, result, req, resp, handled,
                   handlerRet, sent, iters, added, pdata, padapter>>
    /\ UNCHANGED <<other, classUrl, engines>>

NextParse == ProcessResponse

SpecParse == InitParse /\ [][NextParse]_vars

-----------------------------------------------------------------------------
(* GeocodeLookup.__init__ *)

ServiceNames == known_services \cup {"foo"}

CredentialFields == {"APP_KEY", "APP_ID", "APP_CODE", "user"}

OverrideUrl == "https://geocoder.cit.api.here.com/6.2/geocode.json"

\* config: hasServices says whether the "services" key is present, services
\* is its list, entries maps the provider names that have a section of their
\* own to that section's "url" ("None" when the section has no url).
Configs ==
    {[hasServices |-> h, services |-> s, entries |-> e] :
        h \in BOOLEAN,
        s \in SeqsUpTo(ServiceNames, MaxServices),
        e \in UNION {[D -> {"None", OverrideUrl}] : D \in SUBSET known_services}}

\* credentials: provider name -> the credential fields its entry holds
CredentialSets ==
    UNION {[D -> {F \in SUBSET CredentialFields : Cardinality(F) <= 2}] :
              D \in SUBSET known_services}

\* url = config.get(name, {}).get("url", None)
ConfigUrl(cfg, name) ==
    IF name \in DOMAIN cfg.entries THEN cfg.entries[name] ELSE "None"

\* An adapter that keeps the class's default url whatever the config says.
NewAdapterNoOverride(cfg, name) == [name |-> name, url |-> DefaultUrl(name)]

\* service() followed by update_url(url) when url is not None
NewAdapter(cfg, name) ==
    [name |-> name,
     url |-> IF ConfigUrl(cfg, name) # "None" THEN ConfigUrl(cfg, name)
             ELSE DefaultUrl(name)]

\* An adapter list that takes a name as often as it is listed.
SetItemAppend(svcs, adapter) == Append(svcs, adapter)

\* self._services[name] = adapter on an OrderedDict: a known key keeps its
\* position, a new key goes last.
SetItem(svcs, adapter) ==
    IF \E i \in DOMAIN svcs : svcs[i].name = adapter.name
    THEN [i \in DOMAIN svcs |->
             IF svcs[i].name = adapter.name THEN adapter ELSE svcs[i]]
    ELSE Append(svcs, adapter)

\* Credential test that accepts every credentials entry.
MissingCredentialNever(creds, name) == FALSE

\* Credential test that stops after the first required field.
MissingCredentialFirstOnly(creds, name) ==
    name = "google" /\ "APP_KEY" \notin creds[name]

\* for item in service.required_credentials: if item not in credentials[name]
MissingCredential(creds, name) ==
    \E item \in required_credentials(name) : item \notin creds[name]

RECURSIVE InitLoop(_, _, _, _)
InitLoop(cfg, creds, i, svcs) ==
    IF i > Len(cfg.services)
    THEN IF svcs = <<>> THEN [status |-> "ConfigError", services |-> <<>>]
         ELSE [status |-> "ok", services |-> svcs]
    ELSE LET name == cfg.services[i]
         IN IF name \notin known_services
               \/ name \notin DOMAIN creds
               \/ MissingCredential(creds, name)
            THEN [status |-> "ConfigError", services |-> <<>>]
            ELSE InitLoop(cfg, creds, i + 1,
                          SetItem(svcs, NewAdapter(cfg, name)))

GeocodeLookupInit(cfg, creds) ==
    IF ~cfg.hasServices THEN [status |-> "ConfigError", services |-> <<>>]
    ELSE InitLoop(cfg, creds, 1, <<>>)

InitConfig ==
    /\ config \in {c \in Configs : c.hasServices \/ c.services = <<>>}
    /\ credentials \in CredentialSets
    /\ engine = "unbuilt"
    /\ services = <<>>
    /\ RequestIdle
    /\ ParseIdle

Construct ==
    /\ engine = "unbuilt"
    /\ LET built == GeocodeLookupInit(config, credentials)
       IN /\ engine' = built.status
          /\ services' = built.services
    /\ UNCHANGED <<config, credentials, pc, caller, location, idx, missing,
                   calls, result, req, resp, handled, handlerRet, sent, iters,
                   added, pdata, padapter, pout>>
    /\ UNCHANGED <<other, classUrl, engines>>

NextConfig == Construct

SpecConfig == InitConfig /\ [][NextConfig]_vars

-----------------------------------------------------------------------------
(* Text helpers *)

StartsWith(s, pat) == Len(s) >= Len(pat) /\ SubSeq(s, 1, Len(pat)) = pat

\* str.replace(pat, rep)
RECURSIVE Replace(_, _, _)
Replace(s, pat, rep) ==
    IF s = <<>> THEN <<>>
    ELSE IF StartsWith(s, pat)
         THEN rep \o Replace(SubSeq(s, Len(pat) + 1, Len(s)), pat, rep)
         ELSE <<Head(s)>> \o Replace(Tail(s), pat, rep)

\* urllib.parse.quote_plus, as urlencode applies it to a parameter value
RECURSIVE quote_plus(_)
quote_plus(s) ==
    IF s = <<>> THEN <<>>
    ELSE (CASE Head(s) = " " -> <<"+">>
            [] Head(s) = "+" -> <<"%", "2", "B">>
            [] Head(s) = "%" -> <<"%", "2", "5">>
            [] OTHER -> <<Head(s)>>) \o quote_plus(Tail(s))

\* urllib.parse.unquote_plus, as parse_qs applies it to a value
RECURSIVE unquote_plus(_)
unquote_plus(s) ==
    IF s = <<>> THEN <<>>
    ELSE IF StartsWith(s, <<"%", "2", "0">>)
         THEN <<" ">> \o unquote_plus(SubSeq(s, 4, Len(s)))
    ELSE IF StartsWith(s, <<"%", "2", "5">>)
         THEN <<"%">> \o unquote_plus(SubSeq(s, 4, Len(s)))
    ELSE IF StartsWith(s, <<"%", "2", "B">>)
         THEN <<"+">> \o unquote_plus(SubSeq(s, 4, Len(s)))
    ELSE (IF Head(s) = "+" THEN <<" ">> ELSE <<Head(s)>>)
             \o unquote_plus(Tail(s))

RECURSIVE NatToText(_)
NatToText(n) ==
    LET d == (CASE n % 10 = 0 -> "0" [] n % 10 = 1 -> "1" [] n % 10 = 2 -> "2"
                [] n % 10 = 3 -> "3" [] n % 10 = 4 -> "4" [] n % 10 = 5 -> "5"
                [] n % 10 = 6 -> "6" [] n % 10 = 7 -> "7" [] n % 10 = 8 -> "8"
                [] OTHER -> "9")
    IN IF n < 10 THEN <<d>> ELSE Append(NatToText(n \div 10), d)

IntToText(n) == IF n < 0 THEN <<"-">> \o NatToText(0 - n) ELSE NatToText(n)

\* json.dumps with its default separators
RECURSIVE json_dumps(_)
json_dumps(v) ==
    LET RECURSIVE Items(_)
        Items(xs) ==
            IF xs = <<>> THEN <<>>
            ELSE json_dumps(Head(xs))
                    \o (IF Len(xs) > 1 THEN <<",", " ">> ELSE <<>>)
                    \o Items(Tail(xs))
        RECURSIVE Members(_)
        Members(ps) ==
            IF ps = <<>> THEN <<>>
            ELSE <<"\"", Head(ps)[1], "\"", ":", " ">>
                    \o json_dumps(Head(ps)[2])
                    \o (IF Len(ps) > 1 THEN <<",", " ">> ELSE <<>>)
                    \o Members(Tail(ps))
    IN CASE v.t = "str" -> <<"\"">> \o v.chars \o <<"\"">>
         [] v.t = "int" -> IntToText(v.v)
         [] v.t = "null" -> <<"null">>
         [] v.t = "bool" -> IF v.b THEN <<"true">> ELSE <<"false">>
         [] v.t = "list" -> <<"[">> \o Items(v.items) \o <<"]">>
         [] v.t = "dict" -> <<"{">> \o Members(v.pairs) \o <<"}">>

-----------------------------------------------------------------------------
(* GeocodeLookup.request *)

\* The secret stored under a credential field
Secret(field) == <<field>>

\* service.prepare(credentials, location): the outbound URL
prepare(adapter, location_) ==
    [base |-> adapter.url,
     query |->
        IF adapter.name = "google"
        THEN << <<"address", quote_plus(location_)>>,
                <<"key", quote_plus(Secret("APP_KEY"))>> >>
        ELSE << <<"searchtext", quote_plus(location_)>>,
                <<"app_id", quote_plus(Secret("APP_ID"))>>,
                <<"app_code", quote_plus(Secret("APP_CODE"))>> >>]

SampleCoordinate(latKey, lngKey, lat, lng) ==
    Dict(<< <<latKey, Num(lat)>>, <<lngKey, Num(lng)>> >>)

GoogleFound ==
    Wrap("results", List(<< Wrap("geometry", Wrap("location",
        SampleCoordinate("lat", "lng", <<"1", ".", "7">>,
                         <<"-", "7", ".", "1">>))) >>))

GoogleFoundInt ==
    Wrap("results", List(<< Wrap("geometry", Wrap("location",
        SampleCoordinate("lat", "lng", <<"1", "7">>,
                         <<"-", "7", ".", "1">>))) >>))

GoogleNoLng ==
    Wrap("results", List(<< Wrap("geometry", Wrap("location",
        Dict(<< <<"lat", Num(<<"1", ".", "7">>)>> >>))) >>))

GoogleEmpty == Wrap("results", List(<<>>))

HEREFound ==
    Wrap("Response", Wrap("View", List(<< Wrap("Result", List(<<
        Wrap("Location", Wrap("NavigationPosition", List(<<
            SampleCoordinate("Latitude", "Longitude", <<"7", ".", "0">>,
                             <<"0", ".", "1">>) >>))) >>)) >>)))

HEREEmpty == Wrap("Response", Wrap("View", List(<<>>)))

\* What urlopen can hand back: a response object with a code and a body, or
\* an exception of its own (raised |-> TRUE).
Outcomes ==
    {[raised |-> FALSE, code |-> 200, body |-> b] :
        b \in {BadUtf8, NotJson, GoogleFound, GoogleFoundInt, GoogleNoLng,
               GoogleEmpty, HEREFound, HEREEmpty}}
    \cup {[raised |-> FALSE, code |-> 404, body |-> NotJson],
          [raised |-> TRUE, code |-> 0, body |-> NotJson]}

\* response.read().decode()
decode(body) == IF body = BadUtf8 THEN Exc("UnicodeError") ELSE body

\* `if result:` / `if missing:` on what process_response returned
Truthy(v) == ~Falsy(v)

\* One pass of the for loop without the early return on a coordinate.
IterationNoReturn(name, r, missing_) ==
    IF r.raised THEN [do |-> "raise", value |-> Exc("URLError"),
                      missing |-> missing_]
    ELSE IF r.code = 200
    THEN LET text == decode(r.body)
             parsed == IF IsExc(text) THEN text
                       ELSE process_response(name, text)
         IN IF IsExc(parsed)
            THEN IF parsed.name \in {"UnicodeError", "DataProcessingError"}
                 THEN [do |-> "continue", value |-> None,
                       missing |-> missing_]
                 ELSE [do |-> "raise", value |-> parsed, missing |-> missing_]
            ELSE [do |-> "continue", value |-> None, missing |-> TRUE]
    ELSE [do |-> "continue", value |-> None, missing |-> missing_]

\* One pass of the for loop that treats every skipped provider as NotFound.
IterationAlwaysMissing(name, r, missing_) ==
    IF r.raised THEN [do |-> "raise", value |-> Exc("URLError"),
                      missing |-> missing_]
    ELSE IF r.code = 200
    THEN LET text == decode(r.body)
             parsed == IF IsExc(text) THEN text
                       ELSE process_response(name, text)
         IN IF IsExc(parsed)
            THEN [do |-> "continue", value |-> None, missing |-> TRUE]
            ELSE IF Truthy(parsed)
                 THEN [do |-> "return",
                       value |-> Dict(<< <<"location", parsed>>,
                                         <<"served_by", Str(<<name>>)>> >>),
                       missing |-> missing_]
                 ELSE [do |-> "continue", value |-> None, missing |-> TRUE]
    ELSE [do |-> "continue", value |-> None, missing |-> TRUE]

\* One pass of the for loop that gives up on a non-200 status.
IterationStopOnStatus(name, r, missing_) ==
    IF r.raised THEN [do |-> "raise", value |-> Exc("URLError"),
                      missing |-> missing_]
    ELSE IF r.code = 200
    THEN LET text == decode(r.body)
             parsed == IF IsExc(text) THEN text
                       ELSE process_response(name, text)
         IN IF IsExc(parsed)
            THEN IF parsed.name \in {"UnicodeError", "DataProcessingError"}
                 THEN [do |-> "continue", value |-> None,
                       missing |-> missing_]
                 ELSE [do |-> "raise", value |-> parsed, missing |-> missing_]
            ELSE IF Truthy(parsed)
                 THEN [do |-> "return",
                       value |-> Dict(<< <<"location", parsed>>,
                                         <<"served_by", Str(<<name>>)>> >>),
                       missing |-> missing_]
                 ELSE [do |-> "continue", value |-> None, missing |-> TRUE]
    ELSE [do |-> "raise", value |-> Exc("GeocodeLookup.Error"),
          missing |-> missing_]

\* One pass of the for loop that books an undecodable body as NotFound.
IterationDecodeIsMissing(name, r, missing_) ==
    IF r.raised THEN [do |-> "raise", value |-> Exc("URLError"),
                      missing |-> missing_]
    ELSE IF r.code = 200
    THEN LET text == decode(r.body)
             parsed == IF IsExc(text) THEN text
                       ELSE process_response(name, text)
         IN IF IsExc(parsed)
            THEN IF parsed.name = "UnicodeError"
                 THEN [do |-> "continue", value |-> None, missing |-> TRUE]
                 ELSE IF parsed.name = "DataProcessingError"
                 THEN [do |-> "continue", value |-> None,
                       missing |-> missing_]
                 ELSE [do |-> "raise", value |-> parsed, missing |-> missing_]
            ELSE IF Truthy(parsed)
                 THEN [do |-> "return",
                       value |-> Dict(<< <<"location", parsed>>,
                                         <<"served_by", Str(<<name>>)>> >>),
                       missing |-> missing_]
                 ELSE [do |-> "continue", value |-> None, missing |-> TRUE]
    ELSE [do |-> "continue", value |-> None, missing |-> missing_]

\* One pass of the for loop that answers {} at the first NotFound.
IterationStopOnNotFound(name, r, missing_) ==
    IF r.raised THEN [do |-> "raise", value |-> Exc("URLError"),
                      missing |-> missing_]
    ELSE IF r.code = 200
    THEN LET text == decode(r.body)
             parsed == IF IsExc(text) THEN text
                       ELSE process_response(name, text)
         IN IF IsExc(parsed)
            THEN IF parsed.name \in {"UnicodeError", "DataProcessingError"}
                 THEN [do |-> "continue", value |-> None,
                       missing |-> missing_]
                 ELSE [do |-> "raise", value |-> parsed, missing |-> missing_]
            ELSE IF Truthy(parsed)
                 THEN [do |-> "return",
                       value |-> Dict(<< <<"location", parsed>>,
                                         <<"served_by", Str(<<name>>)>> >>),
                       missing |-> missing_]
                 ELSE [do |-> "return", value |-> Dict(<<>>),
                       missing |-> TRUE]
    ELSE [do |-> "continue", value |-> None, missing |-> missing_]

\* One pass of the for loop body for the adapter `name` and the urlopen
\* outcome r: return a value, raise, or go on to the next adapter.
Iteration(name, r, missing_) ==
    IF r.raised THEN [do |-> "raise", value |-> Exc("URLError"),
                      missing |-> missing_]
    ELSE IF r.code = 200
    THEN LET text == decode(r.body)
             parsed == IF IsExc(text) THEN text
                       ELSE process_response(name, text)
         IN IF IsExc(parsed)
            THEN IF parsed.name \in {"UnicodeError", "DataProcessingError"}
                 THEN [do |-> "continue", value |-> None,
                       missing |-> missing_]
                 ELSE [do |-> "raise", value |-> parsed, missing |-> missing_]
            ELSE IF Truthy(parsed)
                 THEN [do |-> "return",
                       value |-> Dict(<< <<"location", parsed>>,
                                         <<"served_by", Str(<<name>>)>> >>),
                       missing |-> missing_]
                 ELSE [do |-> "continue", value |-> None, missing |-> TRUE]
    ELSE [do |-> "continue", value |-> None, missing |-> missing_]

\* After the loop that always reports an error.
ExhaustedAlwaysError(missing_) == Exc("GeocodeLookup.Error")

\* After the loop: `if missing: return {}`, else raise GeocodeLookup.Error
Exhausted(missing_) ==
    IF missing_ THEN Dict(<<>>) ELSE Exc("GeocodeLookup.Error")

-----------------------------------------------------------------------------
(* Response and the /location handler *)

Bytes(chars) == [t |-> "bytes", chars |-> chars]

as_error(response, data, status) ==
    [response EXCEPT !.headers = "text/plain; charset=utf-8",
                     !.status = status,
                     !.data = Append(@, data)]

\* as_json that leaves the status to the caller.
as_json_no_status(response, data) ==
    [response EXCEPT !.headers = "application/json; charset=utf-8",
                     !.data = Append(@, data)]

as_json(response, data) ==
    [response EXCEPT !.headers = "application/json; charset=utf-8",
                     !.status = 200,
                     !.data = Append(@, data)]

add_data(response, data) == [response EXCEPT !.data = Append(@, data)]

\* list.reverse()
Reverse(s) == [i \in 1..Len(s) |-> s[Len(s) + 1 - i]]

\* Response.__iter__ that leaves the data list as it is.
ResponseIterNoReverse(response) == response

\* Response.__iter__: the data list is reversed in place, on every call
ResponseIter(response) == [response EXCEPT !.data = Reverse(@)]

\* http.HTTPStatus(code).name
StatusName(code) ==
    CASE code = 200 -> "OK"
      [] code = 400 -> "BAD_REQUEST"
      [] code = 404 -> "NOT_FOUND"
      [] code = 405 -> "METHOD_NOT_ALLOWED"
      [] code = 503 -> "SERVICE_UNAVAILABLE"

\* What the transport sees of a Response: the call of the start callback
\* with the status line and the headers, a body chunk, the end of the
\* iteration, or an exception.
Event(e, status, reason, headers, type, chars) ==
    [e |-> e, status |-> status, reason |-> reason, headers |-> headers,
     type |-> type, chars |-> chars]

StartEvent(response) ==
    Event("start", response.status, StatusName(response.status),
          response.headers, "", <<>>)

ChunkEvent(item) == Event("chunk", 0, "", "", item.t, item.chars)

StopEvent == Event("stop", 0, "", "", "", <<>>)

RaiseEvent(name) == Event("raise", 0, name, "", "", <<>>)

\* `item = None; while not item: item = self._data.pop()`: items leave the
\* end of the list until one is truthy or the list is empty (IndexError).
RECURSIVE PopTruthy(_)
PopTruthy(data) ==
    IF Len(data) = 0
    THEN [found |-> FALSE, item |-> JNull, data |-> <<>>]
    ELSE LET item == data[Len(data)]
             rest == SubSeq(data, 1, Len(data) - 1)
         IN IF Truthy(item)
            THEN [found |-> TRUE, item |-> item, data |-> rest]
            ELSE PopTruthy(rest)

\* bytes are returned as they are, anything else as str(item).encode()
Encode(item) == IF item.t = "bytes" THEN item ELSE Bytes(item.chars)

\* Response.__next__ that keeps the start callback after calling it.
ResponseNextKeepStart(response) ==
    IF response.start /\ response.status = 0
    THEN [response |-> response,
          events |-> <<RaiseEvent("AttributeError")>>]
    ELSE LET started == IF response.start THEN <<StartEvent(response)>>
                        ELSE <<>>
             popped == PopTruthy(response.data)
         IN [response |-> [response EXCEPT !.data = popped.data],
             events |-> Append(started,
                               IF popped.found
                               THEN ChunkEvent(Encode(popped.item))
                               ELSE StopEvent)]

\* Response.__next__: the first call hands status line and headers to the
\* start callback and drops the callback; every call then yields the next
\* truthy item as bytes, or stops. With no status set the status line
\* cannot be formatted (None has no `value`).
ResponseNext(response) ==
    IF response.start /\ response.status = 0
    THEN [response |-> response,
          events |-> <<RaiseEvent("AttributeError")>>]
    ELSE LET started == IF response.start THEN <<StartEvent(response)>>
                        ELSE <<>>
             popped == PopTruthy(response.data)
         IN [response |-> [response EXCEPT !.start = FALSE,
                                           !.data = popped.data],
             events |-> Append(started,
                               IF popped.found
                               THEN ChunkEvent(Encode(popped.item))
                               ELSE StopEvent)]

\* The server's `for data in result`: __next__ until it stops or raises
RECURSIVE Pulls(_)
Pulls(response) ==
    LET pull == ResponseNext(response)
        last == pull.events[Len(pull.events)]
    IN IF last.e \in {"stop", "raise"}
       THEN pull
       ELSE LET more == Pulls(pull.response)
            IN [response |-> more.response,
                events |-> pull.events \o more.events]

\* iter(result) and the loop over it
Drain(response) == Pulls(ResponseIter(response))

\* Request.path has no return statement: the property is always None.
RequestPath(request) == JNull

\* bad_request that answers as not_found does.
bad_request_as_not_found(response, request) ==
    as_error(response, RequestPath(request), 404)

bad_request(response, request) ==
    as_error(response, RequestPath(request), 400)

not_found(response, request) ==
    as_error(response, RequestPath(request), 404)

\* request.path_info is not an attribute of Request
method_not_allowed(response, request) ==
    [response EXCEPT !.raised = "AttributeError"]

\* The route table of main()
Routes == {<<"/", "location">>}

supported_methods == {"GET"}

\* str.rstrip('/')
RECURSIVE rstrip(_)
rstrip(path) ==
    IF path # <<>> /\ path[Len(path)] = "/"
    THEN rstrip(SubSeq(path, 1, Len(path) - 1))
    ELSE path

\* parse_qs that keeps blank values.
QueryValuesKeepBlank(qs, key) ==
    LET Keep(pair) == pair[1] = key
        kept == SelectSeq(qs, Keep)
    IN [i \in DOMAIN kept |-> unquote_plus(kept[i][2])]

\* urllib.parse.parse_qs(qs)[key]: the decoded non-blank values of key, in
\* order; <<>> when parse_qs has no such key.
QueryValues(qs, key) ==
    LET Keep(pair) == pair[1] = key /\ pair[2] # <<>>
        kept == SelectSeq(qs, Keep)
    IN [i \in DOMAIN kept |-> unquote_plus(kept[i][2])]

\* The Request built by GeocodeApp.__call__ (the Response and the environ
\* it also holds are `resp` and `req`)
NewRequest(method, path, qs) ==
    [app |-> "GeocodeApp", method |-> method, path |-> path, qs |-> qs]

\* The dispatcher answering 200 whatever the handler returned.
HandlerResultOk(response) == [response EXCEPT !.status = 200]

\* `result = handler(request); return result`
HandlerResult(response) == response

\* GeocodeApp.lookup: GeocodeLookup.Error becomes the builtin LookupError
AppLookup(outcome) ==
    IF IsExc(outcome) /\ outcome.name = "GeocodeLookup.Error"
    THEN Exc("LookupError")
    ELSE outcome

\* handle_location from the return of app.lookup on: only
\* GeocodeApp.LookupError is caught, and its handler calls the missing
\* attribute app.service_unavailble.
AfterLookup(response, outcome) ==
    LET looked == AppLookup(outcome)
    IN IF IsExc(looked)
       THEN IF looked.name = "GeocodeApp.LookupError"
            THEN [response EXCEPT !.raised = "AttributeError"]
            ELSE [response EXCEPT !.raised = looked.name]
       ELSE as_json(response,
                    Str(json_dumps(Dict(<< <<"response", looked>> >>))))

-----------------------------------------------------------------------------
(* The service: construction, then one request, made on the engine itself  *)
(* or through the WSGI app                                                 *)

Methods == {"GET", "POST"}

Paths == {<<"/", "location">>, <<"/", "location", "/">>,
          <<"/", "location", "/", "/">>, <<"/", "foo">>, <<"/">>}

\* Raw query strings, as sequences of <<key, raw value>>
QueryStrings ==
    {<<>>,
     << <<"blah", <<"1">>>> >>,
     << <<"where", <<>>>> >>,
     << <<"where", <<"a">>>> >>,
     << <<"where", <<"a", "+", "b">>>> >>,
     << <<"where", <<"a", "%", "2", "0", "b">>>> >>,
     << <<"where", <<"a", "%", "2", "5", "2", "0", "b">>>> >>,
     << <<"where", <<>>>>, <<"where", <<"b">>>>, <<"where", <<"a">>>> >>,
     << <<"blah", <<"1">>>>, <<"where", <<"a", "%", "2", "B", "b">>>> >>}

Locations == {<<"a">>, <<"a", " ", "b">>, <<"a", "+", "b">>,
              <<"a", "%", "2", "0", "b">>}

\* Credentials that hold, for some of the known providers, exactly the
\* fields the provider requires
CompleteCredentialSets ==
    {[name \in D |-> required_credentials(name)] : D \in SUBSET known_services}

Init ==
    /\ InitConfig
    /\ credentials \in CompleteCredentialSets

\* GeocodeLookup.request that takes the location as it is given.
StartRequestRaw(by, location_) ==
    /\ caller' = by
    /\ location' = location_
    /\ missing' = FALSE
    /\ idx' = 1
    /\ calls' = <<>>
    /\ result' = None
    /\ pc' = "loop"

\* GeocodeLookup.request up to the first outbound call
StartRequest(by, location_) ==
    /\ caller' = by
    /\ location' = Replace(location_, <<" ">>, <<"+">>)
    /\ missing' = FALSE
    /\ idx' = 1
    /\ calls' = <<>>
    /\ result' = None
    /\ pc' = "loop"

NoLookup ==
    /\ caller' = "none"
    /\ location' = <<>>
    /\ missing' = FALSE
    /\ idx' = 0
    /\ calls' = <<>>
    /\ result' = None
    /\ pc' = "done"

\* lookup.request(location) called on the engine itself, as main() of
\* geocode/requests.py does
RequestDirect(location_) ==
    /\ engine = "ok"
    /\ pc = "idle"
    /\ StartRequest("direct", location_)
    /\ req' = NoRequest
    /\ resp' = NoResponse
    /\ UNCHANGED <<config, credentials, engine, services, handled,
                   handlerRet, sent, iters, added, pdata, padapter, pout>>
    /\ UNCHANGED <<other, classUrl, engines>>

\* GeocodeApp.__call__ and, on a supported route, handle_location up to
\* the first outbound call
Dispatch(method, path, qs) ==
    /\ engine = "ok"
    /\ pc = "idle"
    /\ req' = [method |-> method, path |-> path, qs |-> qs]
    /\ LET response == NoResponse
           request == NewRequest(method, path, qs)
           where == QueryValues(qs, "where")
       IN IF rstrip(path) \notin Routes
          THEN /\ resp' = not_found(response, request)
               /\ UNCHANGED <<handled, handlerRet>>
               /\ NoLookup
          ELSE IF method \notin supported_methods
          THEN /\ resp' = method_not_allowed(response, request)
               /\ UNCHANGED <<handled, handlerRet>>
               /\ NoLookup
          ELSE IF where = <<>>
          THEN /\ handled' = Append(handled, request)
               /\ handlerRet' = bad_request(
                      add_data(response,
                               Bytes(<<"missing 'where' in query string">>)),
                      request)
               /\ resp' = HandlerResult(handlerRet')
               /\ NoLookup
          ELSE /\ handled' = Append(handled, request)
               /\ handlerRet' = handlerRet
               /\ resp' = response
               /\ StartRequest("handler",
                      Replace(where[1], <<"%", "2", "0">>, <<"+">>))
    /\ UNCHANGED <<config, credentials, engine, services, sent, iters, added,
                   pdata, padapter, pout>>
    /\ UNCHANGED <<other, classUrl, engines>>

\* One pass of the for loop of GeocodeLookup.request: the outbound call, its
\* outcome r, and whatever follows up to the next outbound call -- the return
\* of request and the rest of handle_location included.
CallProvider ==
    /\ pc = "loop"
    /\ \E r \in Outcomes :
          LET adapter == services[idx]
              step == Iteration(adapter.name, r, missing)
              outcome == IF step.do # "continue" THEN step.value
                         ELSE IF idx = Len(services)
                              THEN Exhausted(step.missing)
                              ELSE None
          IN /\ calls' = Append(calls,
                    [name |-> adapter.name,
                     outbound |-> prepare(adapter, location),
                     response |-> r])
             /\ missing' = step.missing
             /\ result' = outcome
             /\ IF outcome = None
                THEN /\ idx' = idx + 1
                     /\ pc' = "loop"
                     /\ UNCHANGED <<resp, handlerRet>>
                ELSE /\ idx' = idx
                     /\ pc' = "done"
                     /\ IF caller = "handler"
                        THEN LET after == AfterLookup(resp, outcome)
                             IN IF after.raised # ""
                                THEN resp' = after /\ handlerRet' = handlerRet
                                ELSE /\ handlerRet' = after
                                     /\ resp' = HandlerResult(after)
                        ELSE UNCHANGED <<resp, handlerRet>>
    /\ UNCHANGED <<config, credentials, engine, services, caller, location,
                   req, handled, sent, iters, added, pdata, padapter, pout>>
    /\ UNCHANGED <<other, classUrl, engines>>

\* The server drains the Response that GeocodeApp.__call__ returned: one
\* iter() and the pulls up to the end of the iteration.
Serve ==
    /\ pc = "done"
    /\ req # NoRequest
    /\ resp.raised = ""
    /\ iters = 0
    /\ LET drained == Drain(resp)
       IN /\ resp' = drained.response
          /\ sent' = sent \o drained.events
          /\ iters' = iters + 1
    /\ UNCHANGED <<config, credentials, engine, services, pc, caller,
                   location, idx, missing, calls, result, req, handled,
                   handlerRet, added, pdata, padapter, pout>>
    /\ UNCHANGED <<other, classUrl, engines>>

Next ==
    \/ Construct
    \/ \E location_ \in Locations : RequestDirect(location_)
    \/ \E method \in Methods, path \in Paths, qs \in QueryStrings :
          Dispatch(method, path, qs)
    \/ CallProvider
    \/ Serve

Spec == Init /\ [][Next]_vars

-----------------------------------------------------------------------------
(* A Response filled by a handler and drained by the server: SpecResponse *)

\* Body parts a handler can add: bytes and text, empty or not, and None
Parts == {Bytes(<<"m">>), Bytes(<<>>), Str(<<"s">>), Str(<<>>), JNull}

\* What the error helpers of GeocodeApp pass as data: a text or None
ErrorParts == {Str(<<"e">>), JNull}

ErrorStatuses == {400, 503}

\* The JSON text handle_location passes to as_json
JsonParts == {Str(<<"j">>)}

\* A new Response, nothing added, nothing drained
InitResponse ==
    /\ EngineIdle
    /\ RequestIdle
    /\ ParseIdle

Filling == iters = 0 /\ Len(added) < MaxParts

AsError(data, status) ==
    /\ Filling
    /\ resp' = as_error(resp, data, status)
    /\ added' = Append(added, data)
    /\ UNCHANGED <<config, credentials, engine, services, pc, caller,
                   location, idx, missing, calls, result, req, handled,
                   handlerRet, sent, iters, pdata, padapter, pout>>
    /\ UNCHANGED <<other, classUrl, engines>>

AsJson(data) ==
    /\ Filling
    /\ resp' = as_json(resp, data)
    /\ added' = Append(added, data)
    /\ UNCHANGED <<config, credentials, engine, services, pc, caller,
                   location, idx, missing, calls, result, req, handled,
                   handlerRet, sent, iters, pdata, padapter, pout>>
    /\ UNCHANGED <<other, classUrl, engines>>

AddData(data) ==
    /\ Filling
    /\ resp' = add_data(resp, data)
    /\ added' = Append(added, data)
    /\ UNCHANGED <<config, credentials, engine, services, pc, caller,
                   location, idx, missing, calls, result, req, handled,
                   handlerRet, sent, iters, pdata, padapter, pout>>
    /\ UNCHANGED <<other, classUrl, engines>>

\* iter(response)
Iter ==
    /\ iters < MaxIters
    /\ resp' = ResponseIter(resp)
    /\ iters' = iters + 1
    /\ UNCHANGED <<config, credentials, engine, services, pc, caller,
                   location, idx, missing, calls, result, req, handled,
                   handlerRet, sent, added, pdata, padapter, pout>>
    /\ UNCHANGED <<other, classUrl, engines>>

\* The pulls that found the iteration over, or failed
Ends(events) == {i \in DOMAIN events : events[i].e \in {"stop", "raise"}}

\* next(response), on an iterator obtained before
Pull ==
    /\ iters >= 1
    /\ Cardinality(Ends(sent)) < MaxEnds
    /\ LET pull == ResponseNext(resp)
       IN /\ resp' = pull.response
          /\ sent' = sent \o pull.events
    /\ UNCHANGED <<config, credentials, engine, services, pc, caller,
                   location, idx, missing, calls, result, req, handled,
                   handlerRet, iters, added, pdata, padapter, pout>>
    /\ UNCHANGED <<other, classUrl, engines>>

NextResponse ==
    \/ \E data \in ErrorParts, status \in ErrorStatuses : AsError(data, status)
    \/ \E data \in JsonParts : AsJson(data)
    \/ \E data \in Parts : AddData(data)
    \/ Iter
    \/ Pull

SpecResponse == InitResponse /\ [][NextResponse]_vars

-----------------------------------------------------------------------------
(* Several GeocodeLookup objects constructed in one process: SpecEngines *)

\* service(): a new adapter object, which has no `url` attribute of its own
service(name) == [name |-> name, own |-> "None"]

\* update_url that assigns to the attribute of the class.
update_url_on_class(adapter, urls, new_url) ==
    [adapter |-> adapter, urls |-> [urls EXCEPT ![adapter.name] = new_url]]

\* update_url: `self.url = new_url` sets an attribute of the adapter object
\* and leaves the class attribute alone
update_url(adapter, urls, new_url) ==
    [adapter |-> [adapter EXCEPT !.own = new_url], urls |-> urls]

\* self.url as prepare reads it: the attribute of the object if it has one,
\* the class attribute otherwise
AdapterUrl(adapter, urls) ==
    IF adapter.own # "None" THEN adapter.own ELSE urls[adapter.name]

\* The for loop of __init__, with the class attributes passed along
RECURSIVE EngineLoop(_, _, _, _, _)
EngineLoop(cfg, creds, i, svcs, urls) ==
    IF i > Len(cfg.services)
    THEN IF Len(svcs) = 0
         THEN [status |-> "ConfigError", services |-> <<>>, urls |-> urls]
         ELSE [status |-> "ok", services |-> svcs, urls |-> urls]
    ELSE LET name == cfg.services[i]
         IN IF name \notin known_services
               \/ name \notin DOMAIN creds
               \/ MissingCredential(creds, name)
            THEN [status |-> "ConfigError", services |-> <<>>, urls |-> urls]
            ELSE LET url == ConfigUrl(cfg, name)
                     made == IF url # "None"
                             THEN update_url(service(name), urls, url)
                             ELSE [adapter |-> service(name), urls |-> urls]
                 IN EngineLoop(cfg, creds, i + 1,
                               SetItem(svcs, made.adapter), made.urls)

NewEngine(cfg, creds, urls) ==
    IF ~cfg.hasServices
    THEN [status |-> "ConfigError", services |-> <<>>, urls |-> urls]
    ELSE EngineLoop(cfg, creds, 1, <<>>, urls)

\* Configs that have a "services" key
EngineConfigs == {c \in Configs : c.hasServices}

\* Credentials that hold every required field of every known provider
FullCredentials == [name \in known_services |-> required_credentials(name)]

InitEngines ==
    /\ EngineIdle
    /\ RequestIdle
    /\ ParseIdle

\* GeocodeLookup(cfg, FullCredentials); `given` keeps the url the config
\* gave for each provider
ConstructEngine(cfg) ==
    /\ Len(engines) < MaxEngines
    /\ LET made == NewEngine(cfg, FullCredentials, classUrl)
       IN /\ engines' = Append(engines,
                 [status |-> made.status,
                  services |-> made.services,
                  given |-> [name \in known_services |->
                               ConfigUrl(cfg, name)]])
          /\ classUrl' = made.urls
    /\ UNCHANGED <<config, credentials, engine, services, pc, caller,
                   location, idx, missing, calls, result, req, resp, handled,
                   handlerRet, sent, iters, added, pdata, padapter, pout,
                   other>>

NextEngines == \E cfg \in EngineConfigs : ConstructEngine(cfg)

SpecEngines == InitEngines /\ [][NextEngines]_vars

-----------------------------------------------------------------------------
(* Two requests in flight on one engine: SpecTwoRequests *)

\* A pass that reads a `missing` kept on the engine, shared by the requests.
LocalMissingShared(own, peer) == own \/ peer

\* `missing` is a local variable of request: a pass reads the one of its
\* own call
LocalMissing(own, peer) == own

\* One pass of the for loop of the request whose locals are `frame`, for the
\* urlopen outcome r, up to the next outbound call or the end of request
FramePass(frame, peerMissing, r) ==
    LET adapter == services[frame.idx]
        step == Iteration(adapter.name, r,
                          LocalMissing(frame.missing, peerMissing))
        outcome == IF step.do # "continue" THEN step.value
                   ELSE IF frame.idx = Len(services)
                        THEN Exhausted(step.missing)
                        ELSE None
    IN [pc |-> IF outcome = None THEN "loop" ELSE "done",
        location |-> frame.location,
        idx |-> IF outcome = None THEN frame.idx + 1 ELSE frame.idx,
        missing |-> step.missing,
        calls |-> Append(frame.calls,
                         [name |-> adapter.name,
                          outbound |-> prepare(adapter, frame.location),
                          response |-> r]),
        result |-> outcome]

\* Configs of an engine that can be constructed, with or without a url
\* for HERE
TwoConfigs ==
    {c \in Configs :
        /\ c.hasServices
        /\ Len(c.services) >= 1
        /\ \A i \in DOMAIN c.services : c.services[i] \in known_services
        /\ \A name \in DOMAIN c.entries :
              name = "HERE" /\ c.entries[name] = OverrideUrl}

TwoLocations == {<<"a">>, <<"a", " ", "b">>}

InitTwo ==
    /\ config \in TwoConfigs
    /\ credentials = FullCredentials
    /\ engine = "unbuilt"
    /\ services = <<>>
    /\ RequestIdle
    /\ ParseIdle

\* A second lookup.request(location) on the same engine, up to its first
\* outbound call
OtherRequest(location_) ==
    /\ engine = "ok"
    /\ other.pc = "idle"
    /\ other' = [pc |-> "loop",
                 location |-> Replace(location_, <<" ">>, <<"+">>),
                 idx |-> 1,
                 missing |-> FALSE,
                 calls |-> <<>>,
                 result |-> None]
    /\ UNCHANGED <<config, credentials, engine, services, pc, caller,
                   location, idx, missing, calls, result, req, resp, handled,
                   handlerRet, sent, iters, added, pdata, padapter, pout,
                   classUrl, engines>>

\* One pass of the loop of the second request
OtherCall ==
    /\ other.pc = "loop"
    /\ \E r \in Outcomes : other' = FramePass(other, missing, r)
    /\ UNCHANGED <<config, credentials, engine, services, pc, caller,
                   location, idx, missing, calls, result, req, resp, handled,
                   handlerRet, sent, iters, added, pdata, padapter, pout,
                   classUrl, engines>>

NextTwo ==
    \/ Construct
    \/ \E location_ \in TwoLocations : RequestDirect(location_)
    \/ CallProvider
    \/ \E location_ \in TwoLocations : OtherRequest(location_)
    \/ OtherCall

SpecTwoRequests == InitTwo /\ [][NextTwo]_vars

-----------------------------------------------------------------------------
(* Reading a response body by its documented shape *)

LatKey(name) == IF name = "google" THEN "lat" ELSE "Latitude"
LngKey(name) == IF name = "google" THEN "lng" ELSE "Longitude"

\* Steps from the document root to the top-level result list, and from
\* there to the location object; "[0]" is the first element of a list.
TopPath(name) ==
    IF name = "google" THEN <<"results">> ELSE <<"Response", "View">>

LocationPath(name) ==
    IF name = "google" THEN <<"[0]", "geometry", "location">>
    ELSE <<"[0]", "Result", "[0]", "Location", "NavigationPosition", "[0]">>

Child(v, step) ==
    IF step = "[0]"
    THEN IF v.t = "list" /\ v.items # <<>> THEN v.items[1] ELSE Absent
    ELSE IF v.t = "dict" /\ \E i \in DOMAIN v.pairs : v.pairs[i][1] = step
         THEN v.pairs[CHOOSE i \in DOMAIN v.pairs : v.pairs[i][1] = step][2]
         ELSE Absent

RECURSIVE Walk(_, _)
Walk(v, path) ==
    IF path = <<>> \/ v.t = "absent" THEN v
    ELSE Walk(Child(v, Head(path)), Tail(path))

HasEmptyResultList(name, data) == Walk(data, TopPath(name)) = List(<<>>)

SourceLocation(name, data) == Walk(data, TopPath(name) \o LocationPath(name))

SourceCoord(name, data, key) ==
    LET loc == SourceLocation(name, data)
    IN IF loc.t = "absent" THEN Absent ELSE Child(loc, key)

PathBroken(name, data) ==
    \/ data = NotJson
    \/ /\ ~HasEmptyResultList(name, data)
       /\ \/ SourceCoord(name, data, LatKey(name)) = Absent
          \/ SourceCoord(name, data, LngKey(name)) = Absent

IsCoordinate(v) == v.t = "dict" /\ Len(v.pairs) = 2

-----------------------------------------------------------------------------
(* Claims about process_response, checked under SpecParse *)

\* C7: for both adapters, process_response on a valid JSON body whose
\* top-level result list is empty (google: results == [], HERE:
\* Response.View == []) returns the NotFound value {} and does not raise
\* DataProcessingError.
C7_EmptyResultListIsNotFound ==
    (pout # None /\ HasEmptyResultList(padapter, pdata)) => pout = NotFound

C7_Witness ==
    /\ padapter = "HERE"
    /\ pdata = Wrap("Response", Wrap("View", List(<<>>)))
    /\ pout = NotFound

\* C8: for both adapters, process_response raises DataProcessingError
\* whenever the body is not valid JSON, a step of the nested path to the
\* location is absent, or the latitude or the longitude key is missing at
\* that path (the empty top-level result list of C7 set aside).
C8_BrokenPathRaises ==
    (pout # None /\ PathBroken(padapter, pdata))
        => pout = Exc("DataProcessingError")

\* C9: every JSON numeric literal at the latitude/longitude path comes back
\* as a string equal to the literal's source text.
C9_LiteralRoundTrip ==
    (pout # None /\ IsCoordinate(pout)) =>
        \A k \in 1..2 :
            LET key == IF k = 1 THEN LatKey(padapter) ELSE LngKey(padapter)
                src == SourceCoord(padapter, pdata, key)
            IN src.t = "num" => pout.pairs[k][2] = Str(src.lit)

-----------------------------------------------------------------------------
(* Claims about GeocodeLookup.__init__, checked under SpecConfig *)

Listed(cfg) == {cfg.services[i] : i \in DOMAIN cfg.services}

Known(name) == name \in {"google", "HERE"}

FullyCredentialed(creds, name) ==
    /\ name \in DOMAIN creds
    /\ name = "google" => "APP_KEY" \in creds[name]
    /\ name = "HERE" => {"APP_ID", "APP_CODE"} \subseteq creds[name]

\* The listed names in order of first occurrence
RECURSIVE FirstOccurrences(_)
FirstOccurrences(s) ==
    IF s = <<>> THEN <<>>
    ELSE LET front == SubSeq(s, 1, Len(s) - 1)
             last == s[Len(s)]
         IN IF \E i \in DOMAIN front : front[i] = last
            THEN FirstOccurrences(front)
            ELSE Append(FirstOccurrences(front), last)

\* C5: construction fails with ConfigError when the config has no "services"
\* list, when the list is empty, when a listed name at any position is not a
\* known service, when a listed known service has no credentials entry, or
\* when one of its required credential fields is absent from that entry.
C5_BadConfigIsConfigError ==
    (/\ engine # "unbuilt"
     /\ \/ ~config.hasServices
        \/ config.services = <<>>
        \/ \E name \in Listed(config) : ~Known(name)
        \/ \E name \in Listed(config) :
              Known(name) /\ ~FullyCredentialed(credentials, name))
        => engine = "ConfigError"

C5_Witness ==
    /\ engine = "ConfigError"
    /\ config.services = <<"HERE", "google">>
    /\ DOMAIN credentials = {"HERE", "google"}
    /\ credentials["HERE"] = {"APP_ID", "APP_CODE"}
    /\ credentials["google"] = {"user"}

\* C6: when the "services" list is present, not empty, and every listed
\* provider is known and fully credentialed, construction succeeds with one
\* adapter per configured provider in configuration order, each with the
\* config's "url" override as base URL when one is given and the provider's
\* default URL otherwise.
C6_AdaptersFollowConfig ==
    (/\ engine # "unbuilt"
     /\ config.hasServices
     /\ config.services # <<>>
     /\ \A name \in Listed(config) :
           Known(name) /\ FullyCredentialed(credentials, name))
        => /\ engine = "ok"
           /\ [i \in DOMAIN services |-> services[i].name]
                 = FirstOccurrences(config.services)
           /\ \A i \in DOMAIN services :
                 LET name == services[i].name
                 IN services[i].url =
                       IF name \in DOMAIN config.entries
                             /\ config.entries[name] # "None"
                       THEN config.entries[name]
                       ELSE IF name = "google"
                            THEN "https://maps.googleapis.com/maps/api/geocode/json"
                            ELSE "https://geocoder.api.here.com/6.2/geocode.json"

C6_Witness ==
    /\ engine = "ok"
    /\ config.services = <<"HERE", "google">>
    /\ DOMAIN config.entries = {"HERE"}
    /\ Len(services) = 2
    /\ services[1] = [name |-> "HERE", url |-> OverrideUrl]
    /\ services[2].url = DefaultUrl("google")

-----------------------------------------------------------------------------
(* Claims about GeocodeLookup.request, checked under Spec *)

\* What a provider did when it was called
Answer(call) ==
    IF call.response.raised THEN "failed"
    ELSE IF call.response.code # 200 THEN "status"
    ELSE IF call.response.body = BadUtf8 THEN "undecodable"
    ELSE LET parsed == process_response(call.name, call.response.body)
         IN IF IsExc(parsed) THEN "unparsable"
            ELSE IF parsed = NotFound THEN "notfound"
            ELSE "coordinate"

Answers == {Answer(calls[k]) : k \in DOMAIN calls}

Tagged(call) ==
    Dict(<< <<"location", process_response(call.name, call.response.body)>>,
            <<"served_by", Str(<<call.name>>)>> >>)

IsLocationResult(v) == v.t = "dict" /\ v.pairs # <<>>

\* C1: request is first-success-wins: outbound calls follow the configured
\* order, the result is {location, served_by} of the earliest provider whose
\* response is status 200, decodes and parses to a coordinate, and no
\* provider after that one is called in the same request.
C1_FirstSuccessWins ==
    /\ \A k \in DOMAIN calls : calls[k].name = services[k].name
    /\ \A k \in DOMAIN calls :
          Answer(calls[k]) = "coordinate" =>
             /\ pc = "done"
             /\ k = Len(calls)
             /\ result = Tagged(calls[k])
    /\ (pc = "done" /\ IsLocationResult(result)) =>
          /\ calls # <<>>
          /\ Answer(calls[Len(calls)]) = "coordinate"

C1_Witness ==
    /\ pc = "done"
    /\ Len(services) = 2
    /\ Len(calls) = 1
    /\ Answer(calls[1]) = "coordinate"
    /\ result = Tagged(calls[1])

\* C2: after a provider's outbound call returned a status other than 200 the
\* request goes on to the next configured provider; with providers [A, B],
\* A answering non-200 and B a valid coordinate, the result is B's
\* coordinate tagged served_by B.
C2_FallbackOnStatus ==
    /\ \A k \in DOMAIN calls :
          (Answer(calls[k]) = "status" /\ k < Len(services)) =>
             IF Len(calls) = k
             THEN pc = "loop" /\ idx = k + 1
             ELSE calls[k + 1].name = services[k + 1].name
    /\ (/\ pc = "done"
        /\ Len(services) = 2
        /\ Len(calls) = 2
        /\ Answer(calls[1]) = "status"
        /\ Answer(calls[2]) = "coordinate")
          => /\ result = Tagged(calls[2])
             /\ calls[2].name = services[2].name

C2_Witness ==
    /\ pc = "done"
    /\ Len(calls) = 2
    /\ calls[1].name = "google"
    /\ calls[1].response.code = 404
    /\ calls[2].response.body = HEREFound
    /\ result = Tagged(calls[2])

\* C3: a request whose providers each answered with a non-200 status, an
\* undecodable body, an unparsable body, NotFound or a coordinate returns
\* the empty result {} exactly when none yielded a coordinate and at least
\* one answered 200 with a body that parsed to NotFound.
C3_EmptyIffNotFound ==
    (pc = "done" /\ "failed" \notin Answers) =>
        (result = Dict(<<>>)
            <=> ("coordinate" \notin Answers /\ "notfound" \in Answers))

C3_Witness ==
    /\ pc = "done"
    /\ Len(calls) = 2
    /\ Answer(calls[1]) = "notfound"
    /\ Answer(calls[2]) = "unparsable"
    /\ result = Dict(<<>>)

\* C4: when every configured provider returned non-200, failed to decode or
\* failed to parse, and none returned NotFound, the request fails with
\* GeocodeLookup.Error and does not return {}.
C4_ExhaustedIsError ==
    (/\ pc = "done"
     /\ Len(calls) = Len(services)
     /\ Answers \subseteq {"status", "undecodable", "unparsable"})
        => result = Exc("GeocodeLookup.Error")

C4_Witness ==
    /\ pc = "done"
    /\ Len(calls) = 2
    /\ Answer(calls[1]) = "undecodable"
    /\ Answer(calls[2]) = "status"
    /\ result = Exc("GeocodeLookup.Error")

-----------------------------------------------------------------------------
(* Claims about the /location handler, checked under Spec *)

Quoted(chars) == <<"\"">> \o chars \o <<"\"">>

CoordText(v) == IF v.t = "str" THEN Quoted(v.chars) ELSE IntToText(v.v)

\* The text {"response": <lookup result>} for the two shapes of a result
Envelope(res, name) ==
    IF res = Dict(<<>>)
    THEN <<"{">> \o Quoted(<<"response">>) \o <<":", " ", "{", "}", "}">>
    ELSE <<"{">> \o Quoted(<<"response">>) \o <<":", " ", "{">>
            \o Quoted(<<"location">>) \o <<":", " ", "{">>
            \o Quoted(<<"lat">>) \o <<":", " ">>
            \o CoordText(res.pairs[1][2].pairs[1][2]) \o <<",", " ">>
            \o Quoted(<<"lng">>) \o <<":", " ">>
            \o CoordText(res.pairs[1][2].pairs[2][2]) \o <<"}", ",", " ">>
            \o Quoted(<<"served_by">>) \o <<":", " ">>
            \o Quoted(<<name>>) \o <<"}", "}">>

\* C10: a GET on /location with a non-empty `where` whose lookup succeeds
\* (coordinate or {}) is answered with status 200, content-type
\* application/json; charset=utf-8 and a body that is the JSON text of
\* {"response": <lookup result>}, served_by naming the provider that
\* answered.
C10_SuccessIsJsonEnvelope ==
    (/\ pc = "done"
     /\ caller = "handler"
     /\ req.method = "GET"
     /\ QueryValues(req.qs, "where") # <<>>
     /\ ~IsExc(result))
        => /\ resp.raised = ""
           /\ resp.status = 200
           /\ resp.headers = "application/json; charset=utf-8"
           /\ handlerRet.data =
                 <<Str(Envelope(result, calls[Len(calls)].name))>>
           /\ IsLocationResult(result) =>
                 Answer(calls[Len(calls)]) = "coordinate"

C10_Witness ==
    /\ pc = "done"
    /\ req = [method |-> "GET", path |-> <<"/", "location">>,
              qs |-> << <<"where", <<"a", "+", "b">>>> >>]
    /\ Len(calls) = 2
    /\ calls[2].response.body = HEREFound
    /\ resp.status = 200
    /\ handlerRet.data = <<Str(
          <<"{", "\"", "response", "\"", ":", " ", "{",
            "\"", "location", "\"", ":", " ", "{",
            "\"", "lat", "\"", ":", " ", "\"", "7", ".", "0", "\"", ",", " ",
            "\"", "lng", "\"", ":", " ", "\"", "0", ".", "1", "\"", "}",
            ",", " ", "\"", "served_by", "\"", ":", " ",
            "\"", "HERE", "\"", "}", "}">>)>>

-----------------------------------------------------------------------------
(* What the transport received *)

PlainText == "text/plain; charset=utf-8"

\* The body chunks among the events, in order
Chunks(events) ==
    LET IsChunk(ev) == ev.e = "chunk"
        kept == SelectSeq(events, IsChunk)
    IN [i \in DOMAIN kept |-> kept[i].chars]

\* The positions of the calls of the start callback
Starts(events) == {i \in DOMAIN events : events[i].e = "start"}

\* The request was for a registered route with a supported method
Routed == rstrip(req.path) \in Routes /\ req.method \in supported_methods

\* The raw query string has no `where` with a value
NoWhere(qs) == \A i \in DOMAIN qs : qs[i][1] = "where" => qs[i][2] = <<>>

MissingWhereText == <<"missing 'where' in query string">>

\* C11: a /location request whose query string has no `where` key, or only
\* blank values for it, or no query string at all, is answered with status
\* 400, content-type text/plain and the body "missing 'where' in query
\* string"; no provider is called.
C11_MissingWhereIsBadRequest ==
    (pc = "done" /\ Routed /\ NoWhere(req.qs))
        => /\ resp.raised = ""
           /\ resp.status = 400
           /\ resp.headers = PlainText
           /\ calls = <<>>
           /\ iters > 0 =>
                 /\ sent[1] = Event("start", 400, "BAD_REQUEST", PlainText,
                                    "", <<>>)
                 /\ Chunks(sent) = <<MissingWhereText>>

C11_Witness ==
    /\ pc = "done"
    /\ req = [method |-> "GET", path |-> <<"/", "location">>, qs |-> <<>>]
    /\ resp.status = 400
    /\ iters = 1
    /\ Chunks(sent) = <<MissingWhereText>>

\* The streamed body: the chunks joined
RECURSIVE Join(_)
Join(chunks) ==
    IF Len(chunks) = 0 THEN <<>> ELSE Head(chunks) \o Join(Tail(chunks))

Body(events) == Join(Chunks(events))

\* `sub` occurs in `text`
Contains(text, sub) ==
    \E i \in 0..Len(text) :
        i + Len(sub) <= Len(text) /\ SubSeq(text, i + 1, i + Len(sub)) = sub

\* C12: a request for a path that is not in the route table is answered
\* with status 404, content-type text/plain, and a streamed body that
\* contains the requested path.
C12_UnknownPathIsNotFound ==
    (pc = "done" /\ req # NoRequest /\ rstrip(req.path) \notin Routes)
        => /\ resp.raised = ""
           /\ resp.status = 404
           /\ resp.headers = PlainText
           /\ iters > 0 => Contains(Body(sent), req.path)

\* C13: a request for a registered route with a method the handler does not
\* support is answered with status 405, content-type text/plain and a body
\* that names the method and the path; the handler is not invoked and no
\* exception leaves the dispatcher.
C13_WrongMethodIsNotAllowed ==
    (/\ pc = "done"
     /\ rstrip(req.path) \in Routes
     /\ req.method \notin supported_methods)
        => /\ resp.raised = ""
           /\ resp.status = 405
           /\ resp.headers = PlainText
           /\ handled = <<>>
           /\ iters > 0 => /\ Contains(Body(sent), <<req.method>>)
                           /\ Contains(Body(sent), req.path)

\* C14: when GeocodeLookup.request ends a /location request with
\* GeocodeLookup.Error, handle_location returns a response with status 503
\* and content-type text/plain, and no exception leaves the handler.
C14_ExhaustedIsServiceUnavailable ==
    (/\ pc = "done"
     /\ caller = "handler"
     /\ IsExc(result)
     /\ result.name = "GeocodeLookup.Error")
        => /\ resp.raised = ""
           /\ resp.status = 503
           /\ resp.headers = PlainText

\* C15: for a registered route and a supported method the dispatcher
\* invokes the handler exactly once, with a Request that carries the
\* method, the path, the raw query string and the app, and what the
\* dispatcher returns is the handler's Response, unmodified.
C15_HandlerInvokedOnce ==
    (req # NoRequest /\ Routed)
        => /\ handled = <<[app |-> "GeocodeApp", method |-> req.method,
                           path |-> req.path, qs |-> req.qs]>>
           /\ (handlerRet # None /\ iters = 0) => resp = handlerRet

C15_Witness ==
    /\ pc = "done"
    /\ Routed
    /\ Len(handled) = 1
    /\ Len(calls) = 2
    /\ iters = 0
    /\ handlerRet # None
    /\ resp = handlerRet
    /\ resp.status = 200

\* C16: when a Response whose status was set is drained, the first pull
\* hands the status line and the headers to the start callback, with the
\* status and headers set on the Response, before any body chunk and also
\* when there is no chunk at all; no later pull calls the start callback
\* again.
C16_StartOnceOnFirstPull ==
    (resp.status # 0 /\ sent # <<>>)
        => /\ sent[1].e = "start"
           /\ sent[1].status = resp.status
           /\ sent[1].reason = StatusName(resp.status)
           /\ sent[1].headers = resp.headers
           /\ Starts(sent) = {1}

C16_Witness ==
    /\ resp.status = 503
    /\ Len(sent) = 4
    /\ sent[1].e = "start"
    /\ sent[2].e = "chunk"
    /\ sent[3].e = "stop"
    /\ sent[4].e = "stop"

\* The start callback is called, too, when no part is non-empty
C16_WitnessNoBody ==
    /\ resp.status = 400
    /\ Len(added) = 2
    /\ Chunks(sent) = <<>>
    /\ Len(sent) = 3
    /\ sent[1].e = "start"

\* None, empty text and empty bytes are empty parts
IsEmptyPart(part) == part.t = "null" \/ part.chars = <<>>

\* The text of the non-empty parts, in the order they were added
Expected(parts) ==
    LET NonEmpty(part) == ~IsEmptyPart(part)
        kept == SelectSeq(parts, NonEmpty)
    IN [i \in DOMAIN kept |-> kept[i].chars]

Count(x, s) == Cardinality({i \in DOMAIN s : s[i] = x})

IsPrefix(s, t) == Len(s) <= Len(t) /\ SubSeq(t, 1, Len(s)) = s

\* C17: draining a Response (one iter(), then pulls) yields the non-empty
\* parts in the order they were added, each once and as bytes, text parts
\* as their encoding; empty parts are skipped; once the parts are exhausted
\* the iteration stops, and stays stopped. Whatever the number of iter()
\* calls, every non-empty part is yielded exactly once.
C17_DrainYieldsPartsInOrder ==
    resp.status # 0 =>
        /\ \A i \in DOMAIN sent : sent[i].e = "chunk" => sent[i].type = "bytes"
        /\ \A i \in Ends(sent) : \A j \in DOMAIN sent : j > i => j \in Ends(sent)
        /\ iters = 1 => IsPrefix(Chunks(sent), Expected(added))
        /\ Ends(sent) # {} =>
              /\ Len(Chunks(sent)) = Len(Expected(added))
              /\ \A i \in DOMAIN Expected(added) :
                    Count(Expected(added)[i], Chunks(sent))
                        = Count(Expected(added)[i], Expected(added))
              /\ iters = 1 => Chunks(sent) = Expected(added)

C17_Witness ==
    /\ iters = 1
    /\ added = <<Bytes(<<"m">>), Str(<<>>), Str(<<"j">>)>>
    /\ resp.status = 200
    /\ Chunks(sent) = << <<"m">>, <<"j">> >>
    /\ Ends(sent) # {}

-----------------------------------------------------------------------------
(* The provider loop of GeocodeLookup.request *)

\* C18: every failure of a single provider -- a status other than 200, an
\* undecodable body, an unparsable body, or the outbound GET itself
\* failing -- stays inside request: a finished request returned a
\* coordinate, returned {} or raised GeocodeLookup.Error, and unless it
\* returned a coordinate every configured provider was called.
C18_FailuresAreSwallowed ==
    (pc = "done" /\ calls # <<>>)
        => /\ \/ IsLocationResult(result)
              \/ result = Dict(<<>>)
              \/ IsExc(result) /\ result.name = "GeocodeLookup.Error"
           /\ IsLocationResult(result) \/ Len(calls) = Len(services)

\* What holds of the calls made so far
C19_Calls ==
    /\ Len(calls) <= Len(services)
    /\ \A j, k \in DOMAIN calls : j # k => calls[j].name # calls[k].name
    /\ Len(calls) <= Len(FirstOccurrences(config.services))
    /\ \A k \in DOMAIN calls :
          calls[k].name = FirstOccurrences(config.services)[k]
    /\ pc = "loop" =>
          /\ idx = Len(calls) + 1
          /\ missing = ("notfound" \in Answers)
          /\ Answers \subseteq {"status", "undecodable", "unparsable",
                                "notfound"}

\* What holds of every step that makes a call
C19_Step ==
    calls' # calls =>
        /\ pc = "loop"
        /\ Len(calls') = Len(calls) + 1
        /\ SubSeq(calls', 1, Len(calls)) = calls
        /\ calls'[Len(calls')].name = services[idx].name

\* C19: within one request the outbound calls are made one at a time, in
\* configuration order; no configured provider is called twice, whatever
\* it answered; and the next provider is called only when the answer of the
\* one before has been dealt with (the loop is past it and `missing` tells
\* whether any answer so far was NotFound).
C19_OneCallPerProviderInOrder == []C19_Calls /\ [][C19_Step]_vars

C19_Witness ==
    /\ pc = "done"
    /\ config.services = <<"HERE", "google">>
    /\ Len(calls) = 2
    /\ calls[1].name = "HERE"
    /\ calls[1].response.code = 404
    /\ calls[2].name = "google"
    /\ calls[2].response.body = BadUtf8

\* C20: a NotFound answer does not end the lookup: when a provider that is
\* not the last answers NotFound, the next configured provider is called,
\* and when a later provider answers with a coordinate the result is that
\* coordinate tagged with the later provider's name, not {}.
C20_NotFoundThenCoordinate ==
    /\ \A k \in DOMAIN calls :
          (Answer(calls[k]) = "notfound" /\ k < Len(services)) =>
             IF Len(calls) = k
             THEN pc = "loop" /\ idx = k + 1 /\ missing
             ELSE calls[k + 1].name = services[k + 1].name
    /\ (/\ pc = "done"
        /\ \E k \in DOMAIN calls :
              k < Len(calls) /\ Answer(calls[k]) = "notfound"
        /\ Answer(calls[Len(calls)]) = "coordinate")
          => /\ result = Tagged(calls[Len(calls)])
             /\ result # Dict(<<>>)
             /\ result.pairs[2][2] = Str(<<calls[Len(calls)].name>>)

C20_Witness ==
    /\ pc = "done"
    /\ Len(calls) = 2
    /\ calls[1].name = "google"
    /\ calls[1].response.body = GoogleEmpty
    /\ calls[2].name = "HERE"
    /\ calls[2].response.body = HEREFound
    /\ result = Tagged(calls[2])

\* C21: a 200 response whose body is not valid UTF-8 is passed over like an
\* unparsable one: when its provider is not the last the next provider is
\* called, and the decode failure does not set `missing` -- a request in
\* which no provider answered NotFound or with a coordinate, and at least
\* one body was undecodable, ends in GeocodeLookup.Error, not {}.
C21_UndecodableIsNotNotFound ==
    /\ \A k \in DOMAIN calls :
          (Answer(calls[k]) = "undecodable" /\ k < Len(services)) =>
             IF Len(calls) = k
             THEN /\ pc = "loop"
                  /\ idx = k + 1
                  /\ missing = (\E j \in 1..(k - 1) :
                                   Answer(calls[j]) = "notfound")
             ELSE calls[k + 1].name = services[k + 1].name
    /\ (/\ pc = "done"
        /\ "undecodable" \in Answers
        /\ Answers \subseteq {"undecodable", "status", "unparsable"})
          => result = Exc("GeocodeLookup.Error")

C21_Witness ==
    /\ pc = "done"
    /\ Len(services) = 1
    /\ Len(calls) = 1
    /\ calls[1].response.code = 200
    /\ calls[1].response.body = BadUtf8
    /\ result = Exc("GeocodeLookup.Error")

-----------------------------------------------------------------------------
(* The constructed engine *)

\* C22: a GeocodeLookup that was constructed has at least one adapter, and
\* for every adapter the credentials hold an entry of the adapter's name
\* with all the fields the provider requires; a construction that ended in
\* ConfigError has made no outbound call.
C22_ConstructedEngineIsUsable ==
    /\ engine = "ok" =>
          /\ services # <<>>
          /\ \A i \in DOMAIN services :
                /\ services[i].name \in DOMAIN credentials
                /\ FullyCredentialed(credentials, services[i].name)
    /\ engine = "ConfigError" => calls = <<>> /\ services = <<>>

C22_Witness ==
    /\ engine = "ok"
    /\ Len(services) = 2
    /\ services[1].name = "HERE"
    /\ credentials["HERE"] = {"APP_ID", "APP_CODE"}
    /\ credentials["google"] = {"APP_KEY", "user"}

-----------------------------------------------------------------------------
(* Routing and the text handed to the providers *)

\* The path without one trailing '/', if it has one
StripOne(path) ==
    IF path # <<>> /\ path[Len(path)] = "/"
    THEN SubSeq(path, 1, Len(path) - 1)
    ELSE path

\* C24: the dispatcher strips one trailing '/' from the path, and no more,
\* before the route lookup: '/location/' reaches the '/location' handler,
\* a path that ends in two or more slashes keeps the rest, is not in the
\* route table and is answered 404 without reaching the handler.
C24_StripsOneSlash ==
    (pc = "done" /\ req # NoRequest /\ req.method \in supported_methods)
        => IF StripOne(req.path) \in Routes
           THEN Len(handled) = 1
           ELSE handled = <<>> /\ resp.status = 404

NoSpace(text) == \A i \in DOMAIN text : text[i] # " "

\* The text a provider reads from the outbound URL of a call
Received(call) == unquote_plus(call.outbound.query[1][2])

\* C25: handle_location hands the lookup the first value of `where` with
\* every '%20' replaced by '+', request replaces every space of its
\* location by '+' before the first outbound URL is built, and every
\* provider called in the request receives that same text, which holds no
\* space.
C25_LocationIsNormalized ==
    caller # "none" =>
        /\ NoSpace(location)
        /\ caller = "handler" =>
              location = Replace(Replace(QueryValues(req.qs, "where")[1],
                                         <<"%", "2", "0">>, <<"+">>),
                                 <<" ">>, <<"+">>)
        /\ \A k \in DOMAIN calls : Received(calls[k]) = location

C25_Witness ==
    /\ pc = "done"
    /\ caller = "handler"
    /\ req.qs = << <<"where", <<"a", "%", "2", "5", "2", "0", "b">>>> >>
    /\ location = <<"a", "+", "b">>
    /\ Len(calls) = 2
    /\ Received(calls[1]) = <<"a", "+", "b">>
    /\ Received(calls[2]) = <<"a", "+", "b">>

\* How the shape of a value at the latitude or longitude key is called
OddShape(v) == v.t \in {"null", "bool", "list", "dict", "str"}

\* C26: process_response raises DataProcessingError when the latitude or
\* the longitude is present at the expected path but is null, a boolean, a
\* list, an object or a text instead of a number.
C26_OddCoordinateRaises ==
    LET lat == SourceCoord(padapter, pdata, LatKey(padapter))
        lng == SourceCoord(padapter, pdata, LngKey(padapter))
    IN (/\ pout # None
        /\ pdata # NotJson
        /\ lat # Absent
        /\ lng # Absent
        /\ OddShape(lat) \/ OddShape(lng))
          => pout = Exc("DataProcessingError")

\* C27: a request for an unknown path, with an unsupported method, or
\* without a `where` value never reaches the lookup engine:
\* GeocodeLookup.request is not called and no outbound call is made.
C27_RejectedNeverLooksUp ==
    (/\ req # NoRequest
     /\ \/ rstrip(req.path) \notin Routes
        \/ req.method \notin supported_methods
        \/ NoWhere(req.qs))
        => /\ pc = "done"
           /\ caller = "none"
           /\ calls = <<>>
           /\ result = None

C27_Witness ==
    /\ pc = "done"
    /\ req = [method |-> "GET", path |-> <<"/", "location">>,
              qs |-> << <<"where", <<>>>> >>]
    /\ resp.status = 400
    /\ calls = <<>>
    /\ iters = 1

\* C28: iter() on a Response is idempotent for what is yielded: however
\* often it is called before or during the drain, the parts come out in
\* the order they were added, each non-empty part once.
C28_IterIsIdempotent ==
    (resp.status # 0 /\ Ends(sent) # {}) => Chunks(sent) = Expected(added)

-----------------------------------------------------------------------------
(* Engines constructed side by side *)

UrlOfClass(name) ==
    IF name = "google"
    THEN "https://maps.googleapis.com/maps/api/geocode/json"
    ELSE "https://geocoder.api.here.com/6.2/geocode.json"

\* C29: a base-URL override given to one GeocodeLookup changes the URL of
\* that engine's own adapter only: the default URL of the provider's class
\* stays what it was, and every adapter of every engine, constructed before
\* or after, has the override of its own config, or the default when its
\* config gives none.
C29_OverrideStaysInItsEngine ==
    /\ \A name \in {"google", "HERE"} : classUrl[name] = UrlOfClass(name)
    /\ \A e \in DOMAIN engines :
          \A i \in DOMAIN engines[e].services :
             LET adapter == engines[e].services[i]
             IN AdapterUrl(adapter, classUrl) =
                   IF engines[e].given[adapter.name] # "None"
                   THEN engines[e].given[adapter.name]
                   ELSE UrlOfClass(adapter.name)

C29_Witness ==
    /\ Len(engines) = 2
    /\ engines[1].status = "ok"
    /\ engines[1].given["HERE"] = OverrideUrl
    /\ engines[1].services = <<[name |-> "HERE", own |-> OverrideUrl]>>
    /\ engines[2].status = "ok"
    /\ engines[2].given["HERE"] = "None"
    /\ Len(engines[2].services) = 2
    /\ engines[2].services[2].name = "HERE"
    /\ AdapterUrl(engines[2].services[2], classUrl)
          = "https://geocoder.api.here.com/6.2/geocode.json"

-----------------------------------------------------------------------------
(* Requests side by side *)

\* What request returns or raises when it runs alone on the engine and the
\* providers answer rs[1], rs[2], ...; None while the answers do not yet
\* decide it
RECURSIVE AloneFrom(_, _, _)
AloneFrom(rs, k, missing_) ==
    IF k > Len(rs) THEN None
    ELSE LET step == Iteration(services[k].name, rs[k], missing_)
         IN IF step.do # "continue" THEN step.value
            ELSE IF k = Len(services) THEN Exhausted(step.missing)
            ELSE AloneFrom(rs, k + 1, step.missing)

Alone(calls_) == AloneFrom([k \in DOMAIN calls_ |-> calls_[k].response], 1, FALSE)

\* The engine is as constructed and each request is where it would be alone
C23_Independent ==
    /\ engine = "ok" =>
          services = GeocodeLookupInit(config, credentials).services
    /\ caller = "direct" =>
          /\ result = Alone(calls)
          /\ \A k \in DOMAIN calls :
                calls[k].outbound = prepare(services[k], location)
    /\ other.pc # "idle" =>
          /\ other.result = Alone(other.calls)
          /\ \A k \in DOMAIN other.calls :
                other.calls[k].outbound = prepare(services[k], other.location)

\* No step of a request changes the engine
C23_EngineKept ==
    engine = "ok" => UNCHANGED <<config, credentials, engine, services>>

\* C23: request changes neither the adapters of the engine, nor their
\* order, nor their base URLs, nor the credentials, and under every
\* interleaving of two requests on one engine each request returns or
\* raises what it would alone, given the same answers of the providers.
C23_RequestsDoNotInterfere == []C23_Independent /\ [][C23_EngineKept]_vars

C23_Witness ==
    /\ pc = "done"
    /\ other.pc = "done"
    /\ Len(calls) = 2
    /\ Len(other.calls) = 2
    /\ location # other.location
    /\ result = Dict(<<>>)
    /\ other.result = Exc("GeocodeLookup.Error")
    /\ services[2].url = OverrideUrl

====
